---- MODULE Spec2Model ----
(***************************************************************************)
(* Frame decision pipeline of the vehicle proximity safety system:        *)
(* depth sampling, ROI geometry, proximity / collision classification and *)
(* the three persistence counters of WarningSystem, driven by the frame   *)
(* loop of RoadObjectDetector.                                            *)
(*                                                                         *)
(* Units.  Pixel coordinates and depth readings are integers.  A          *)
(* confidence c of the detector is held as the integer 10*c, so that      *)
(* "confidence > 0.5" is "conf > 5".  np.median of an even number of      *)
(* samples is the mean of the two middle ones, so a median is held as     *)
(* twice its value ("twice") and compared with twice the threshold.       *)
(***************************************************************************)
EXTENDS Integers, Sequences, FiniteSets, TLC

VARIABLES
    pc,               \* position of the host program (see detect_from)
    use_depth,        \* argument of detect_from_video / detect_from_camera
    feed,             \* what cap.read() can deliver in this run
    frame_count,      \* local of the frame loop
    frame,            \* the frame being processed (kept until the next read)
    results,          \* self.model(frame)
    depth_map,        \* None or get_depth_map(frame)
    close_vehicles,   \* <<left_close_vehicles, right_close_vehicles>>
    collision_detected,
    warning_system,   \* the fields of self.warning_system
    drawn,            \* what the frame's drawing step rendered
    history,          \* history: frames processed, and per signal the
                      \* number of the last frame in which it was negative
    repeated,         \* history: the frame equals the one processed before it
    call,             \* a direct call of a component function: its arguments
    ret               \* ... and what it returned

vars == <<pc, use_depth, feed, frame_count, frame, results, depth_map,
          close_vehicles, collision_detected, warning_system, drawn,
          history, repeated, call, ret>>

sessionVars == <<pc, use_depth, feed, frame_count, frame, results, depth_map,
                 close_vehicles, collision_detected, warning_system, drawn,
                 history, repeated>>

-----------------------------------------------------------------------------
(* config/settings.py *)

ROAD_CLASSES == [person |-> 0, bicycle |-> 1, car |-> 2, motorcycle |-> 3,
                 bus |-> 5, train |-> 6, truck |-> 7]

CONFIDENCE_THRESHOLD == 5
DEPTH_COLLISION_SAMPLE_SIZE == 5
WARNING_THRESHOLD == 3
COLLISION_THRESHOLD == 600
COLLISION_ALERT_THRESHOLD == 2
CLOSE_DEPTH_THRESHOLD == 1200
GRID_COLS == 4
GRID_ROWS == 3
SHOW_WARNINGS == TRUE
SHOW_COLLISION_ALERTS == FALSE

(* ROAD_CLASSES.values() *)
RoadClassIds == {ROAD_CLASSES[k] : k \in DOMAIN ROAD_CLASSES}

(* self.model.names: the detector's own id -> name table (COCO order). *)
class_names == [i \in 0..7 |->
    CASE i = 0 -> "person" [] i = 1 -> "bicycle" [] i = 2 -> "car"
      [] i = 3 -> "motorcycle" [] i = 4 -> "airplane" [] i = 5 -> "bus"
      [] i = 6 -> "train" [] i = 7 -> "truck"]

None == [none |-> TRUE]

-----------------------------------------------------------------------------
(* Python and numpy primitives *)

Max(a, b) == IF a >= b THEN a ELSE b
Min(a, b) == IF a <= b THEN a ELSE b

(* list(range(start, stop, 2)) *)
RECURSIVE PyRange2(_, _)
PyRange2(start, stop) ==
    IF start >= stop THEN <<>> ELSE <<start>> \o PyRange2(start + 2, stop)

(* int(s / 2) for an integer s: float division, truncation towards zero *)
IntHalf(s) == IF s >= 0 THEN s \div 2 ELSE -((-s) \div 2)

(* A depth map is [shape |-> <<rows, cols>>, px |-> [<<row, col>> -> value]]. *)
(* depth_map[i, j]: numpy wraps a negative index once and raises IndexError *)
(* outside [-dim, dim-1].                                                   *)
IndexOk(dm, i, j) ==
    /\ i >= -dm.shape[1] /\ i < dm.shape[1]
    /\ j >= -dm.shape[2] /\ j < dm.shape[2]

Pixel(dm, i, j) == dm.px[<<i % dm.shape[1], j % dm.shape[2]>>]

(* The k-th smallest entry of a non-empty sequence (k in 1..Len). *)
KthSmallest(s, k) ==
    CHOOSE v \in {s[i] : i \in DOMAIN s} :
        /\ Cardinality({i \in DOMAIN s : s[i] < v}) < k
        /\ Cardinality({i \in DOMAIN s : s[i] <= v}) >= k

(* np.median(values): nan for an empty list (a warning, no exception);     *)
(* the middle entry, or the mean of the two middle entries.                 *)
NpMedian(values) ==
    LET n == Len(values) IN
    IF n = 0 THEN [nan |-> TRUE, twice |-> 0]
    ELSE IF n % 2 = 1
         THEN [nan |-> FALSE, twice |-> 2 * KthSmallest(values, (n + 1) \div 2)]
         ELSE [nan |-> FALSE,
               twice |-> KthSmallest(values, n \div 2)
                         + KthSmallest(values, n \div 2 + 1)]

(* median > threshold; every comparison with nan is False *)
MedianGt(m, threshold) == ~m.nan /\ m.twice > 2 * threshold

-----------------------------------------------------------------------------
(* models/depth_estimator.py: the depth sampler *)

(* mutant: a coordinate beyond the map wraps around instead of being       *)
(* clamped                                                                  *)
sample_coord_wrap(dim, v) == v % dim

(* mutant: the lower clamp is missing *)
sample_coord_upper_only(dim, v) == Min(dim - 1, v)

(* max(0, min(dim - 1, v)) *)
sample_coord(dim, v) == Max(0, Min(dim - 1, v))

(* A Python list: its entries are computed once, when it is built. *)
PyList(f) == SubSeq(f, 1, Len(f))

(* The two loops, flattened: step k (from 1) has dx = offs[(k-1) div n + 1] *)
(* (outer loop) and dy = offs[(k-1) mod n + 1] (inner loop); the entry is   *)
(* the index pair <<sample_y, sample_x>> of that step.                      *)
SampleSteps(dm, center_x, center_y, offs) ==
    LET n == Len(offs)
        xs == PyList([i \in 1..n |->
                        sample_coord(dm.shape[2], center_x + offs[i])])
        ys == PyList([i \in 1..n |->
                        sample_coord(dm.shape[1], center_y + offs[i])])
    IN PyList([k \in 1..(n * n) |->
                 <<ys[((k - 1) % n) + 1], xs[((k - 1) \div n) + 1]>>])

(* get_depth_at_location: the index pairs it read, whether an index raised *)
(* (which ends the loops at that step), and the median it returned.         *)
get_depth_at_location(dm, center_x, center_y, sample_size) ==
    LET steps == SampleSteps(dm, center_x, center_y,
                             PyRange2(-sample_size, sample_size))
        bad   == {k \in DOMAIN steps : ~IndexOk(dm, steps[k][1], steps[k][2])}
        last  == IF bad = {} THEN Len(steps)
                 ELSE CHOOSE k \in bad : \A j \in bad : k <= j
        depth_values ==
            PyList([k \in DOMAIN steps |-> Pixel(dm, steps[k][1], steps[k][2])])
    IN [reads  |-> SubSeq(steps, 1, last),
        raised |-> bad # {},
        median |-> IF bad # {} THEN [nan |-> TRUE, twice |-> 0]
                   ELSE NpMedian(depth_values)]

-----------------------------------------------------------------------------
(* utils/roi_manager.py: ROI geometry *)

(* mutant: the grid width is rounded up instead of down *)
get_roi_coordinates_ceil(frame_width, frame_height) ==
    LET grid_width  == (frame_width + GRID_COLS - 1) \div GRID_COLS
        grid_height == frame_height \div GRID_ROWS
    IN <<grid_width, frame_height - grid_height, 3 * grid_width, frame_height>>

(* mutant: the top edge is taken as two grid rows from the top *)
get_roi_coordinates_two_rows(frame_width, frame_height) ==
    LET grid_width  == frame_width \div GRID_COLS
        grid_height == frame_height \div GRID_ROWS
    IN <<grid_width, 2 * grid_height, 3 * grid_width, frame_height>>

get_roi_coordinates(frame_width, frame_height) ==
    LET grid_width  == frame_width \div GRID_COLS
        grid_height == frame_height \div GRID_ROWS
        roi_top     == frame_height - grid_height
        roi_bottom  == frame_height
        roi_left    == grid_width
        roi_right   == 3 * grid_width
    IN <<roi_left, roi_top, roi_right, roi_bottom>>

(* mutant: a bbox that starts on the frame's bottom edge is left out *)
is_in_collision_roi_open_bottom(x1, y1, x2, y2, frame_width, frame_height) ==
    LET grid_width  == frame_width \div GRID_COLS
        grid_height == frame_height \div GRID_ROWS
        roi_top     == frame_height - grid_height
        roi_bottom  == frame_height
        roi_left    == grid_width
        roi_right   == 3 * grid_width
    IN ~(x2 < roi_left \/ x1 > roi_right \/ y2 < roi_top \/ y1 >= roi_bottom)

(* mutant: a bbox that only touches the ROI is not counted *)
is_in_collision_roi_strict(x1, y1, x2, y2, frame_width, frame_height) ==
    LET grid_width  == frame_width \div GRID_COLS
        grid_height == frame_height \div GRID_ROWS
        roi_top     == frame_height - grid_height
        roi_bottom  == frame_height
        roi_left    == grid_width
        roi_right   == 3 * grid_width
    IN ~(x2 <= roi_left \/ x1 >= roi_right \/ y2 <= roi_top \/ y1 >= roi_bottom)

is_in_collision_roi(x1, y1, x2, y2, frame_width, frame_height) ==
    LET grid_width  == frame_width \div GRID_COLS
        grid_height == frame_height \div GRID_ROWS
        roi_top     == frame_height - grid_height
        roi_bottom  == frame_height
        roi_left    == grid_width
        roi_right   == 3 * grid_width
    IN ~(x2 < roi_left \/ x1 > roi_right \/ y2 < roi_top \/ y1 > roi_bottom)

-----------------------------------------------------------------------------
(* utils/visualization.py: the ROI overlay *)

(* mutant: the right edge mirrors the left one, frame_width - grid_width *)
draw_roi_mirrored(frame_width, frame_height) ==
    LET grid_width  == frame_width \div GRID_COLS
        grid_height == frame_height \div GRID_ROWS
    IN <<grid_width, frame_height - grid_height, frame_width - grid_width,
         frame_height>>

(* draw_roi: the corners (roi_left, roi_top), (roi_right, roi_bottom) it   *)
(* passes to cv2.rectangle                                                  *)
draw_roi(frame_width, frame_height) ==
    LET grid_width  == frame_width \div GRID_COLS
        grid_height == frame_height \div GRID_ROWS
        roi_top     == frame_height - grid_height
        roi_bottom  == frame_height
        roi_left    == grid_width
        roi_right   == 3 * grid_width
    IN <<roi_left, roi_top, roi_right, roi_bottom>>

-----------------------------------------------------------------------------
(* Detections.  A box is [xyxy |-> <<x1, y1, x2, y2>>, conf |-> 10 * conf,  *)
(* cls |-> class id]; a result is [boxes |-> None] or                       *)
(* [boxes |-> [none |-> FALSE, items |-> <<box, ...>>]].                    *)

(* mutant: a confidence equal to the threshold is accepted *)
Qualifies_geq(box) ==
    box.conf >= CONFIDENCE_THRESHOLD /\ box.cls \in RoadClassIds

(* confidence > CONFIDENCE_THRESHOLD and class_id in ROAD_CLASSES.values() *)
Qualifies(box) ==
    box.conf > CONFIDENCE_THRESHOLD /\ box.cls \in RoadClassIds

-----------------------------------------------------------------------------
(* utils/warnings.py: proximity classification *)

(* the literal radius of range(-5, 5, 2) *)
CLOSE_SAMPLE_SIZE == 5

(* mutant: is_close starts as True, so a missing depth map means close *)
IsClose_default_true(box, dm) ==
    IF dm.none THEN TRUE
    ELSE MedianGt(get_depth_at_location(dm,
                      IntHalf(box.xyxy[1] + box.xyxy[3]),
                      IntHalf(box.xyxy[2] + box.xyxy[4]),
                      CLOSE_SAMPLE_SIZE).median, CLOSE_DEPTH_THRESHOLD)

(* is_close of one qualifying box *)
IsClose(box, dm) ==
    IF dm.none THEN FALSE
    ELSE LET center_x == IntHalf(box.xyxy[1] + box.xyxy[3])
             center_y == IntHalf(box.xyxy[2] + box.xyxy[4])
             median_depth ==
                 get_depth_at_location(dm, center_x, center_y,
                                       CLOSE_SAMPLE_SIZE).median
         IN MedianGt(median_depth, CLOSE_DEPTH_THRESHOLD)

(* mutant: a centre on the midline goes to the left list *)
IsLeft_leq(box, frame_width) == box.xyxy[1] + box.xyxy[3] <= frame_width

(* (x1 + x2) / 2 < frame_width / 2, both sides doubled *)
IsLeft(box, frame_width) == box.xyxy[1] + box.xyxy[3] < frame_width

(* The inner loop over one result's boxes, from box i on, carrying the two *)
(* lists.                                                                   *)
RECURSIVE CloseBoxes(_, _, _, _, _)
CloseBoxes(items, i, dm, frame_width, lists) ==
    IF i > Len(items) THEN lists
    ELSE LET box == items[i]
             class_name == class_names[box.cls]
             next ==
                 IF Qualifies(box) /\ IsClose(box, dm)
                 THEN IF IsLeft(box, frame_width)
                      THEN <<Append(lists[1], class_name), lists[2]>>
                      ELSE <<lists[1], Append(lists[2], class_name)>>
                 ELSE lists
         IN CloseBoxes(items, i + 1, dm, frame_width, next)

(* The outer loop over the results, from result r on. *)
RECURSIVE CloseResults(_, _, _, _, _)
CloseResults(res, r, dm, frame_width, lists) ==
    IF r > Len(res) THEN lists
    ELSE CloseResults(res, r + 1, dm, frame_width,
            IF res[r].boxes.none THEN lists
            ELSE CloseBoxes(res[r].boxes.items, 1, dm, frame_width, lists))

get_close_vehicles_by_side(res, dm, frame_width) ==
    CloseResults(res, 1, dm, frame_width, <<<<>>, <<>>>>)

-----------------------------------------------------------------------------
(* utils/roi_manager.py: collision check *)

(* mutant: a reading equal to COLLISION_THRESHOLD counts *)
BoxCollides_geq(box, dm, frame_width, frame_height) ==
    /\ Qualifies(box)
    /\ is_in_collision_roi(box.xyxy[1], box.xyxy[2], box.xyxy[3], box.xyxy[4],
                           frame_width, frame_height)
    /\ ~dm.none
    /\ LET m == get_depth_at_location(dm,
                    IntHalf(box.xyxy[1] + box.xyxy[3]),
                    IntHalf(box.xyxy[2] + box.xyxy[4]),
                    DEPTH_COLLISION_SAMPLE_SIZE).median
       IN ~m.nan /\ m.twice >= 2 * COLLISION_THRESHOLD

(* mutant: the reading is compared the other way round (a small reading   *)
(* taken for a near object)                                                *)
BoxCollides_below(box, dm, frame_width, frame_height) ==
    /\ Qualifies(box)
    /\ is_in_collision_roi(box.xyxy[1], box.xyxy[2], box.xyxy[3], box.xyxy[4],
                           frame_width, frame_height)
    /\ ~dm.none
    /\ LET m == get_depth_at_location(dm,
                    IntHalf(box.xyxy[1] + box.xyxy[3]),
                    IntHalf(box.xyxy[2] + box.xyxy[4]),
                    DEPTH_COLLISION_SAMPLE_SIZE).median
       IN ~m.nan /\ m.twice < 2 * COLLISION_THRESHOLD

(* The tests one box goes through before collision_detected is set. *)
BoxCollides(box, dm, frame_width, frame_height) ==
    /\ Qualifies(box)
    /\ is_in_collision_roi(box.xyxy[1], box.xyxy[2], box.xyxy[3], box.xyxy[4],
                           frame_width, frame_height)
    /\ ~dm.none
    /\ LET center_x == IntHalf(box.xyxy[1] + box.xyxy[3])
           center_y == IntHalf(box.xyxy[2] + box.xyxy[4])
           median_depth ==
               get_depth_at_location(dm, center_x, center_y,
                                     DEPTH_COLLISION_SAMPLE_SIZE).median
       IN MedianGt(median_depth, COLLISION_THRESHOLD)

(* mutant: no break, and every box of the result assigns the flag, so the  *)
(* last box of the result decides                                          *)
CollisionBoxes_last_decides(items, i, dm, frame_width, frame_height) ==
    /\ i <= Len(items)
    /\ BoxCollides(items[Len(items)], dm, frame_width, frame_height)

(* The inner loop from box i on: TRUE when it sets the flag and breaks. *)
RECURSIVE CollisionBoxes(_, _, _, _, _)
CollisionBoxes(items, i, dm, frame_width, frame_height) ==
    IF i > Len(items) THEN FALSE
    ELSE IF BoxCollides(items[i], dm, frame_width, frame_height) THEN TRUE
    ELSE CollisionBoxes(items, i + 1, dm, frame_width, frame_height)

(* The outer loop from result r on; the break leaves only the inner loop,  *)
(* and nothing resets the flag.                                             *)
RECURSIVE CollisionResults(_, _, _, _, _, _)
CollisionResults(res, r, dm, frame_width, frame_height, detected) ==
    IF r > Len(res) THEN detected
    ELSE CollisionResults(res, r + 1, dm, frame_width, frame_height,
            IF ~res[r].boxes.none
               /\ CollisionBoxes(res[r].boxes.items, 1, dm,
                                 frame_width, frame_height)
            THEN TRUE ELSE detected)

(* mutant: the flag is kept from the call before instead of starting as   *)
(* False                                                                    *)
check_collision_alert_sticky(res, dm, frame_width, frame_height) ==
    CollisionResults(res, 1, dm, frame_width, frame_height,
                     collision_detected)

check_collision_alert(res, dm, frame_width, frame_height) ==
    CollisionResults(res, 1, dm, frame_width, frame_height, FALSE)

-----------------------------------------------------------------------------
(* utils/warnings.py: WarningSystem *)

(* mutant: the two thresholds are taken from each other's setting *)
WarningSystem_init_swapped ==
    [left_warning_frames       |-> 0,
     right_warning_frames      |-> 0,
     warning_threshold         |-> COLLISION_ALERT_THRESHOLD,
     collision_alert_frames    |-> 0,
     collision_alert_threshold |-> WARNING_THRESHOLD]

WarningSystem_init ==
    [left_warning_frames       |-> 0,
     right_warning_frames      |-> 0,
     warning_threshold         |-> WARNING_THRESHOLD,
     collision_alert_frames    |-> 0,
     collision_alert_threshold |-> COLLISION_ALERT_THRESHOLD]

(* mutant: the right counter is driven by the left list *)
update_warning_persistence_copy(ws, left_close_vehicles, right_close_vehicles) ==
    [ws EXCEPT
        !.left_warning_frames  =
            IF left_close_vehicles # <<>> THEN @ + 1 ELSE 0,
        !.right_warning_frames =
            IF left_close_vehicles # <<>> THEN @ + 1 ELSE 0]

(* mutant: an empty list lets the counter decay by one instead of resetting *)
update_warning_persistence_decay(ws, left_close_vehicles, right_close_vehicles) ==
    [ws EXCEPT
        !.left_warning_frames  =
            IF left_close_vehicles # <<>> THEN @ + 1 ELSE Max(0, @ - 1),
        !.right_warning_frames =
            IF right_close_vehicles # <<>> THEN @ + 1 ELSE Max(0, @ - 1)]

update_warning_persistence(ws, left_close_vehicles, right_close_vehicles) ==
    [ws EXCEPT
        !.left_warning_frames  =
            IF left_close_vehicles # <<>> THEN @ + 1 ELSE 0,
        !.right_warning_frames =
            IF right_close_vehicles # <<>> THEN @ + 1 ELSE 0]

(* mutant: a negative signal leaves the counter as it is *)
update_collision_persistence_hold(ws, detected) ==
    [ws EXCEPT !.collision_alert_frames = IF detected THEN @ + 1 ELSE @]

(* mutant: the counter saturates at its threshold *)
update_collision_persistence_capped(ws, detected) ==
    [ws EXCEPT !.collision_alert_frames =
        IF detected THEN Min(@ + 1, ws.collision_alert_threshold) ELSE 0]

update_collision_persistence(ws, detected) ==
    [ws EXCEPT !.collision_alert_frames = IF detected THEN @ + 1 ELSE 0]

(* mutant: the threshold must be exceeded *)
should_show_collision_alert_strict(ws) ==
    ws.collision_alert_frames > ws.collision_alert_threshold

should_show_collision_alert(ws) ==
    ws.collision_alert_frames >= ws.collision_alert_threshold

(* draw_warnings: which of the two texts it draws *)
draw_warnings(ws) ==
    [left  |-> ws.left_warning_frames >= ws.warning_threshold,
     right |-> ws.right_warning_frames >= ws.warning_threshold]

-----------------------------------------------------------------------------
(* Bounds and inputs *)

MaxFrames == 5      \* frames a session reads before the model stops it
MaxDets == 2        \* detections in one frame of the single-frame runs
MaxDim == 9         \* frame widths and heights of the direct ROI calls
MaxMapDim == 3      \* rows and columns of the maps of the direct sampler calls
MaxCentre == 6      \* |centre coordinate| of the direct sampler calls
MaxRadius == 5      \* sample_size of the direct sampler calls

Box(x1, y1, x2, y2, conf, cls) ==
    [xyxy |-> <<x1, y1, x2, y2>>, conf |-> conf, cls |-> cls]

Boxes(items) == [boxes |-> [none |-> FALSE, items |-> items]]
NoBoxes == [boxes |-> None]

UniformMap(rows, cols, v) ==
    [none |-> FALSE, shape |-> <<rows, cols>>,
     px |-> [p \in (0..(rows - 1)) \X (0..(cols - 1)) |-> v]]

(* value vl in the columns left of column k, vr from column k on *)
SplitMap(rows, cols, k, vl, vr) ==
    [none |-> FALSE, shape |-> <<rows, cols>>,
     px |-> [p \in (0..(rows - 1)) \X (0..(cols - 1)) |->
                IF p[2] < k THEN vl ELSE vr]]

(* Frames are 12 wide and 9 high: frame.shape = (9, 12, 3); the ROI is     *)
(* (3, 6, 9, 9).                                                            *)
FrameShape == <<9, 12>>

CarInRoiLeft    == Box(3, 6, 5, 8, 9, 2)     \* centre (4, 7), in the ROI
TruckOnMidline  == Box(5, 7, 7, 8, 9, 7)     \* centre x = 6 = width / 2
PersonTopLeft   == Box(0, 0, 2, 2, 6, 0)     \* outside the ROI, left
BusTopRight     == Box(10, 1, 11, 3, 9, 5)   \* outside the ROI, right
CarLowConf      == Box(4, 6, 8, 8, 5, 2)     \* confidence = threshold
Airplane        == Box(4, 6, 8, 8, 9, 4)     \* not a road class
CarTouchingRoi  == Box(9, 2, 11, 6, 9, 2)    \* touches the ROI's corner

(* the boxes of the one-frame runs *)
Dets == {CarInRoiLeft, TruckOnMidline, PersonTopLeft, CarLowConf, Airplane,
         CarTouchingRoi}

Map600   == UniformMap(9, 12, 600)
Map700   == UniformMap(9, 12, 700)
Map1200  == UniformMap(9, 12, 1200)
Map1300  == UniformMap(9, 12, 1300)
MapSplit == SplitMap(9, 12, 6, 1300, 700)
MapSmall == SplitMap(3, 4, 2, 601, 1201)   \* coarser than the frame

Maps == {Map600, Map700, Map1200, Map1300, MapSplit, MapSmall}

(* The sequences over S of length at most n. *)
SeqsUpTo(S, n) == UNION {[1..k -> S] : k \in 0..n}

(* A flat list of boxes cut into results after position cut: a result      *)
(* without boxes first (cut = 0), one result (cut = Len), or two.          *)
CutResults(ds, cut) ==
    IF cut = 0 THEN <<NoBoxes, Boxes(ds)>>
    ELSE IF cut = Len(ds) THEN <<Boxes(ds)>>
    ELSE <<Boxes(SubSeq(ds, 1, cut)), Boxes(SubSeq(ds, cut + 1, Len(ds)))>>

ResultLists ==
    {<<>>} \cup
    {CutResults(ds, cut) : <<ds, cut>> \in
        {p \in SeqsUpTo(Dets, MaxDets) \X (0..MaxDets) : p[2] <= Len(p[1])}}

Input(res, dm) == [shape |-> FrameShape, results |-> res, depth |-> dm]

(* what a one-frame run may be fed *)
Inputs == {Input(res, dm) : res \in ResultLists, dm \in Maps}

(* what the camera or the video of a session delivers, frame by frame *)
SessionResults ==
    {<<>>, <<NoBoxes>>}
    \cup {<<Boxes(<<d>>)>> : d \in Dets \cup {BusTopRight}}
    \cup {<<Boxes(<<PersonTopLeft, BusTopRight>>)>>,
          <<Boxes(<<CarLowConf>>), Boxes(<<CarInRoiLeft, TruckOnMidline>>)>>}

SessionMaps == {Map700, Map1300, MapSplit}

SessionInputs == {Input(res, dm) : res \in SessionResults, dm \in SessionMaps}

(* counter values a WarningSystem has reached after three frames *)
InitCounts == {<<2, 2, 1>>, <<3, 1, 2>>}

-----------------------------------------------------------------------------
(* models/detector.py: the frame loop *)

FeedInputs == IF feed.kind = "session" THEN SessionInputs ELSE {feed.input}

(* detect_from_video / detect_from_camera up to the loop *)
DetectFrom(ud) ==
    /\ pc = "init"
    /\ pc' = "loop"
    /\ use_depth' = ud
    /\ frame_count' = 0
    /\ UNCHANGED <<feed, frame, results, depth_map, close_vehicles,
                   collision_detected, warning_system, drawn, history,
                   repeated, call, ret>>

(* cap.read() delivers f; _process_frame up to update_warning_persistence *)
ProcessFrameProximity(f) ==
    /\ pc = "loop"
    /\ frame_count < feed.length
    /\ frame' = [none |-> FALSE, shape |-> f.shape]
    /\ results' = f.results
    /\ depth_map' = IF use_depth THEN f.depth ELSE None
    /\ close_vehicles' =
           get_close_vehicles_by_side(results', depth_map', frame'.shape[2])
    /\ warning_system' =
           update_warning_persistence(warning_system, close_vehicles'[1],
                                      close_vehicles'[2])
    /\ history' = [history EXCEPT
           !.frames = @ + 1,
           !.left   = IF close_vehicles'[1] = <<>>
                      THEN history.frames + 1 ELSE @,
           !.right  = IF close_vehicles'[2] = <<>>
                      THEN history.frames + 1 ELSE @]
    /\ repeated' = /\ frame_count > 0
                   /\ frame' = frame
                   /\ results' = results
                   /\ depth_map' = depth_map
    /\ pc' = "collision"
    /\ UNCHANGED <<use_depth, feed, frame_count, collision_detected, drawn,
                   call, ret>>

(* mutant: the collision counter is updated only inside the depth check *)
ProcessFrameCollision_only_with_depth ==
    /\ pc = "collision"
    /\ collision_detected' =
           IF ~depth_map.none
           THEN check_collision_alert(results, depth_map,
                                      frame.shape[2], frame.shape[1])
           ELSE FALSE
    /\ warning_system' =
           IF ~depth_map.none
           THEN update_collision_persistence(warning_system,
                                             collision_detected')
           ELSE warning_system
    /\ history' = [history EXCEPT
           !.collision = IF collision_detected' THEN @ ELSE history.frames]
    /\ pc' = "draw"
    /\ UNCHANGED <<use_depth, feed, frame_count, frame, results, depth_map,
                   close_vehicles, repeated, drawn, call, ret>>

(* _process_frame: the collision check and update_collision_persistence *)
ProcessFrameCollision ==
    /\ pc = "collision"
    /\ collision_detected' =
           IF ~depth_map.none
           THEN check_collision_alert(results, depth_map,
                                      frame.shape[2], frame.shape[1])
           ELSE FALSE
    /\ warning_system' =
           update_collision_persistence(warning_system, collision_detected')
    /\ history' = [history EXCEPT
           !.collision = IF collision_detected' THEN @ ELSE history.frames]
    /\ pc' = "draw"
    /\ UNCHANGED <<use_depth, feed, frame_count, frame, results, depth_map,
                   close_vehicles, repeated, drawn, call, ret>>

(* mutant: the collision alert is drawn whatever SHOW_COLLISION_ALERTS is *)
ProcessFrameDraw_ungated ==
    /\ pc = "draw"
    /\ drawn' =
           [left  |-> SHOW_WARNINGS /\ draw_warnings(warning_system).left,
            right |-> SHOW_WARNINGS /\ draw_warnings(warning_system).right,
            collision |-> should_show_collision_alert(warning_system)]
    /\ frame_count' = frame_count + 1
    /\ pc' = "loop"
    /\ UNCHANGED <<use_depth, feed, frame, results, depth_map, close_vehicles,
                   collision_detected, warning_system, history, repeated,
                   call, ret>>

(* _process_frame: the drawing step, then the loop's frame_count += 1 *)
ProcessFrameDraw ==
    /\ pc = "draw"
    /\ drawn' =
           [left  |-> SHOW_WARNINGS /\ draw_warnings(warning_system).left,
            right |-> SHOW_WARNINGS /\ draw_warnings(warning_system).right,
            collision |-> SHOW_COLLISION_ALERTS
                          /\ should_show_collision_alert(warning_system)]
    /\ frame_count' = frame_count + 1
    /\ pc' = "loop"
    /\ UNCHANGED <<use_depth, feed, frame, results, depth_map, close_vehicles,
                   collision_detected, warning_system, history, repeated,
                   call, ret>>

(* cap.read() returns no frame, or the user quits: the loop ends *)
EndSession ==
    /\ pc = "loop"
    /\ pc' = "done"
    /\ UNCHANGED <<use_depth, feed, frame_count, frame, results, depth_map,
                   close_vehicles, collision_detected, warning_system, drawn,
                   history, repeated, call, ret>>

(* RoadObjectDetector.__init__, before any session *)
InitDetector ==
    /\ pc = "init"
    /\ use_depth = FALSE
    /\ frame_count = 0
    /\ frame = None
    /\ results = <<>>
    /\ depth_map = None
    /\ close_vehicles = <<<<>>, <<>>>>
    /\ collision_detected = FALSE
    /\ drawn = [left |-> FALSE, right |-> FALSE, collision |-> FALSE]
    /\ repeated = FALSE

Init ==
    /\ InitDetector
    /\ call = None
    /\ ret = None
    /\ feed = [kind |-> "session", length |-> MaxFrames]
    /\ warning_system = WarningSystem_init
    /\ history = [frames |-> 0, left |-> 0, right |-> 0, collision |-> 0]

Next ==
    \/ \E ud \in BOOLEAN : DetectFrom(ud)
    \/ \E f \in FeedInputs : ProcessFrameProximity(f)
    \/ ProcessFrameCollision
    \/ ProcessFrameDraw
    \/ EndSession

Spec == Init /\ [][Next]_vars

(* One frame f, processed by a detector whose counters stand at c. *)
InitFrame ==
    /\ InitDetector
    /\ call = None
    /\ ret = None
    /\ \E f \in Inputs : feed = [kind |-> "one", length |-> 1, input |-> f]
    /\ \E c \in InitCounts :
          /\ warning_system = [WarningSystem_init EXCEPT
                 !.left_warning_frames = c[1],
                 !.right_warning_frames = c[2],
                 !.collision_alert_frames = c[3]]
          /\ history = [frames |-> 3, left |-> 3 - c[1], right |-> 3 - c[2],
                        collision |-> 3 - c[3]]

SpecFrame == InitFrame /\ [][Next]_vars

(* Detections whose bbox the detector delivered with swapped corners. *)
CarReversedX    == Box(10, 6, 0, 8, 9, 2)    \* x1 > x2, spans the ROI
TruckReversedY  == Box(4, 8, 8, 7, 9, 7)     \* y1 > y2, inside the ROI
PersonReversed  == Box(2, 2, 0, 0, 9, 0)     \* both swapped, top left

BoxDets == {CarInRoiLeft, PersonTopLeft, CarReversedX, TruckReversedY,
            PersonReversed}

(* one frame of at most MaxDets of these detections, in any order and any  *)
(* grouping into results                                                    *)
BoxInputs ==
    {Input(CutResults(p[1], p[2]), dm) :
        p \in {p \in SeqsUpTo(BoxDets, MaxDets) \X (0..MaxDets) :
                  p[2] <= Len(p[1])},
        dm \in SessionMaps}

InitBoxes ==
    /\ InitDetector
    /\ call = None
    /\ ret = None
    /\ \E f \in BoxInputs : feed = [kind |-> "one", length |-> 1, input |-> f]
    /\ warning_system = [WarningSystem_init EXCEPT
           !.left_warning_frames = 1,
           !.right_warning_frames = 2,
           !.collision_alert_frames = 1]
    /\ history = [frames |-> 2, left |-> 1, right |-> 0, collision |-> 1]

SpecBoxes == InitBoxes /\ [][Next]_vars

(* frames one session reads in the runs with several sessions *)
MaxSessionFrames == 2

(* detect_from_video / detect_from_camera called again on the detector of  *)
(* an earlier session (example_custom_processing): frame_count starts at   *)
(* 0 and the locals of the earlier call are gone; nothing assigns          *)
(* self.warning_system or its counters.                                     *)
DetectAgain(ud) ==
    /\ pc = "done"
    /\ history.frames < MaxFrames
    /\ pc' = "loop"
    /\ use_depth' = ud
    /\ frame_count' = 0
    /\ frame' = None
    /\ results' = <<>>
    /\ depth_map' = None
    /\ close_vehicles' = <<<<>>, <<>>>>
    /\ collision_detected' = FALSE
    /\ repeated' = FALSE
    /\ UNCHANGED <<feed, warning_system, drawn, history, call, ret>>

(* one detector, sessions of at most MaxSessionFrames frames each *)
InitSessions ==
    /\ InitDetector
    /\ call = None
    /\ ret = None
    /\ feed = [kind |-> "session", length |-> MaxSessionFrames]
    /\ warning_system = WarningSystem_init
    /\ history = [frames |-> 0, left |-> 0, right |-> 0, collision |-> 0]

NextSessions ==
    \/ Next
    \/ \E ud \in BOOLEAN : DetectAgain(ud)

SpecSessions == InitSessions /\ [][NextSessions]_vars

(* KeyboardInterrupt (which main catches) or any other exception raised    *)
(* inside the frame loop: the call is left where it stands; no handler in  *)
(* _process_frame or detect_from_* restores a counter.                      *)
Interrupt ==
    /\ pc \in {"loop", "collision", "draw"}
    /\ frame_count < feed.length
    /\ pc' = "stopped"
    /\ ret' = [fn |-> "_process_frame", raised |-> TRUE]
    /\ UNCHANGED <<use_depth, feed, frame_count, frame, results, depth_map,
                   close_vehicles, collision_detected, warning_system, drawn,
                   history, repeated, call>>

(* One frame that may be interrupted; call keeps the counters the detector *)
(* had when the frame was read.                                             *)
InitStop ==
    /\ InitDetector
    /\ ret = None
    /\ \E f \in SessionInputs :
          feed = [kind |-> "one", length |-> 1, input |-> f]
    /\ \E c \in InitCounts :
          /\ warning_system = [WarningSystem_init EXCEPT
                 !.left_warning_frames = c[1],
                 !.right_warning_frames = c[2],
                 !.collision_alert_frames = c[3]]
          /\ history = [frames |-> 3, left |-> 3 - c[1], right |-> 3 - c[2],
                        collision |-> 3 - c[3]]
    /\ call = [kind |-> "_process_frame", warning_system |-> warning_system]

NextStop == Next \/ Interrupt

SpecStop == InitStop /\ [][NextStop]_vars

-----------------------------------------------------------------------------
(* Direct calls of the component functions, as the tests and               *)
(* example_component_usage make them: call holds the arguments, ret the    *)
(* function's name and what it returned.                                    *)

(* bbox extents on an axis of length dim: a point or a unit interval       *)
(* anywhere from -1 to dim + 1, or one that covers the whole axis          *)
Extents(dim) ==
    {<<a, a + d>> : a \in (-1)..(dim + 1), d \in 0..1} \cup {<<-1, dim + 1>>}

RoiCall(w, h, x1, y1, x2, y2) ==
    [kind |-> "roi", frame_width |-> w, frame_height |-> h,
     bbox |-> <<x1, y1, x2, y2>>]

RoiCalls ==
    {RoiCall(w, h, ex[1], ey[1], ex[2], ey[2]) :
        <<w, h, ex, ey>> \in
            {q \in (0..MaxDim) \X (0..MaxDim) \X Extents(MaxDim)
                   \X Extents(MaxDim) :
                q[3] \in Extents(q[1]) /\ q[4] \in Extents(q[2])}}
    \cup {RoiCall(800, 600, 200, 400, 300, 500),
          RoiCall(800, 600, 50, 100, 150, 200),
          RoiCall(800, 600, 600, 600, 610, 610),
          RoiCall(800, 600, 601, 400, 610, 500)}

CallGetRoiCoordinates ==
    /\ call.kind = "roi"
    /\ ret' = [fn |-> "get_roi_coordinates",
               value |-> get_roi_coordinates(call.frame_width,
                                             call.frame_height)]
    /\ UNCHANGED <<sessionVars, call>>

CallIsInCollisionRoi ==
    /\ call.kind = "roi"
    /\ ret' = [fn |-> "is_in_collision_roi",
               value |-> is_in_collision_roi(call.bbox[1], call.bbox[2],
                                             call.bbox[3], call.bbox[4],
                                             call.frame_width,
                                             call.frame_height)]
    /\ UNCHANGED <<sessionVars, call>>

InitComponents ==
    /\ InitDetector
    /\ feed = [kind |-> "session", length |-> 0]
    /\ warning_system = WarningSystem_init
    /\ history = [frames |-> 0, left |-> 0, right |-> 0, collision |-> 0]
    /\ ret = [fn |-> "none"]

InitRoi == InitComponents /\ call \in RoiCalls

NextRoi == CallGetRoiCoordinates \/ CallIsInCollisionRoi

SpecRoi == InitRoi /\ [][NextRoi]_vars

(* The three ROI computations for one frame size and bbox: the test, the   *)
(* coordinates, and the overlay of the drawing step (_process_frame calls  *)
(* draw_roi with frame.shape[1], frame.shape[0] when SHOW_ROI is set).     *)
CallRoiThrice ==
    /\ call.kind = "roi"
    /\ ret' = [fn |-> "roi_thrice",
               inside |-> is_in_collision_roi(call.bbox[1], call.bbox[2],
                                              call.bbox[3], call.bbox[4],
                                              call.frame_width,
                                              call.frame_height),
               coordinates |-> get_roi_coordinates(call.frame_width,
                                                   call.frame_height),
               overlay |-> draw_roi(call.frame_width, call.frame_height)]
    /\ UNCHANGED <<sessionVars, call>>

NextRoiThrice == CallRoiThrice

SpecRoiThrice == InitRoi /\ [][NextRoiThrice]_vars

(* a map whose pixels all differ: 100 * row + 10 * col + base *)
GradientMap(rows, cols, base) ==
    [none |-> FALSE, shape |-> <<rows, cols>>,
     px |-> [p \in (0..(rows - 1)) \X (0..(cols - 1)) |->
                100 * p[1] + 10 * p[2] + base]]

SamplerMaps ==
    {GradientMap(rows, cols, 500) : rows \in 1..MaxMapDim, cols \in 1..MaxMapDim}
    \cup {UniformMap(rows, cols, 700) : rows \in 1..MaxMapDim,
                                        cols \in 1..MaxMapDim}

SamplerCalls ==
    {[kind |-> "sample", depth_map |-> dm, center_x |-> cx, center_y |-> cy,
      sample_size |-> r] :
        dm \in SamplerMaps, cx \in (-MaxCentre)..MaxCentre,
        cy \in (-MaxCentre)..MaxCentre, r \in (-1)..MaxRadius}

CallGetDepthAtLocation ==
    /\ call.kind = "sample"
    /\ ret' = [fn |-> "get_depth_at_location",
               value |-> get_depth_at_location(call.depth_map, call.center_x,
                                               call.center_y, call.sample_size)]
    /\ UNCHANGED <<sessionVars, call>>

InitSampler == InitComponents /\ call \in SamplerCalls

NextSampler == CallGetDepthAtLocation

SpecSampler == InitSampler /\ [][NextSampler]_vars

(* One detection taken through the depth sampling of both checks, with     *)
(* settings.DEPTH_COLLISION_SAMPLE_SIZE configured as call.configured:     *)
(* get_close_vehicles_by_side loops over range(-5, 5, 2) whatever the      *)
(* setting is, check_collision_alert over                                   *)
(* range(-DEPTH_COLLISION_SAMPLE_SIZE, DEPTH_COLLISION_SAMPLE_SIZE, 2).     *)
RadiusMaps == {GradientMap(9, 12, 500), MapSplit, Map1300}

RadiusCalls ==
    {[kind |-> "radius", box |-> box, depth_map |-> dm, configured |-> r] :
        box \in Dets \cup {BusTopRight}, dm \in RadiusMaps, r \in 1..MaxRadius}

CallBothSamplings ==
    /\ call.kind = "radius"
    /\ LET center_x == IntHalf(call.box.xyxy[1] + call.box.xyxy[3])
           center_y == IntHalf(call.box.xyxy[2] + call.box.xyxy[4])
       IN ret' = [fn |-> "samplings",
                  close |-> get_depth_at_location(call.depth_map, center_x,
                                center_y, CLOSE_SAMPLE_SIZE),
                  collision |-> get_depth_at_location(call.depth_map,
                                center_x, center_y, call.configured)]
    /\ UNCHANGED <<sessionVars, call>>

InitRadius == InitComponents /\ call \in RadiusCalls

NextRadius == CallBothSamplings

SpecRadius == InitRadius /\ [][NextRadius]_vars

(* Detections near the frame's bottom right corner and depth maps coarser  *)
(* than the frame, as get_depth_map returns them (the network's output     *)
(* resolution, not the frame's).                                            *)
CarBeyondInRoi == Box(8, 7, 9, 8, 9, 2)      \* centre (8, 7), in the ROI
BusBeyondRight == Box(10, 7, 11, 9, 9, 5)    \* centre (10, 8), right of the ROI

SmallMapDets == {CarBeyondInRoi, BusBeyondRight, TruckOnMidline, PersonTopLeft}

SmallMaps == {MapSmall, GradientMap(3, 4, 500), GradientMap(2, 2, 1100),
              GradientMap(2, 2, 400)}

SmallMapInputs ==
    {Input(CutResults(p[1], p[2]), dm) :
        p \in {p \in SeqsUpTo(SmallMapDets, MaxDets) \X (0..MaxDets) :
                  p[2] <= Len(p[1])},
        dm \in SmallMaps}

InitSmallMap ==
    /\ InitDetector
    /\ call = None
    /\ ret = None
    /\ \E f \in SmallMapInputs :
          feed = [kind |-> "one", length |-> 1, input |-> f]
    /\ warning_system = [WarningSystem_init EXCEPT
           !.left_warning_frames = 1,
           !.right_warning_frames = 2,
           !.collision_alert_frames = 1]
    /\ history = [frames |-> 2, left |-> 1, right |-> 0, collision |-> 1]

SpecSmallMap == InitSmallMap /\ [][Next]_vars

-----------------------------------------------------------------------------
(* Vocabulary of the properties *)

(* no frame is in flight: every frame read has been processed to the end *)
BetweenFrames == pc \in {"init", "loop", "done"}

(* the current frame has been classified (its left / right update is done) *)
Classified == pc \in {"collision", "draw", "loop", "done"} /\ ~frame.none

(* ... and its collision step is done, too *)
Decided == pc \in {"draw", "loop", "done"} /\ ~frame.none

(* the positions <<r, i>> of all boxes of a result list *)
Positions(res) ==
    {q \in (DOMAIN res) \X (1..MaxDets + 1) :
        ~res[q[1]].boxes.none /\ q[2] <= Len(res[q[1]].boxes.items)}

BoxAt(res, q) == res[q[1]].boxes.items[q[2]]

(* the result list without the box at position q *)
RemoveBox(res, q) ==
    [res EXCEPT ![q[1]].boxes.items =
        [k \in 1..(Len(@) - 1) |-> IF k < q[2] THEN @[k] ELSE @[k + 1]]]

(* closed axis-aligned rectangles <<left, top, right, bottom>> share a point *)
Overlap(a, b) ==
    \E x \in a[1]..a[3], y \in a[2]..a[4] :
        x \in b[1]..b[3] /\ y \in b[2]..b[4]

-----------------------------------------------------------------------------
(* C1: between frames, the left (right) approach warning is drawn iff the  *)
(* left (right) close-list was non-empty in each of the last 3 frames:     *)
(* at least 3 frames were processed and none of the frames n-2..n had an   *)
(* empty list.  So one empty frame turns it off at once, and it takes 3    *)
(* further non-empty frames to show it again.                              *)
C1_WarningIffThreeFrames ==
    BetweenFrames =>
        /\ drawn.left  <=> (history.frames >= 3
                            /\ history.left <= history.frames - 3)
        /\ drawn.right <=> (history.frames >= 3
                            /\ history.right <= history.frames - 3)

(* the left warning is drawn while the right list, empty one frame ago,    *)
(* keeps the right warning off                                             *)
C1_Witness ==
    /\ pc = "loop"
    /\ drawn.left /\ ~drawn.right
    /\ history.frames >= 4
    /\ history.right = history.frames - 1

(* C2: each counter is >= 0 and equals the length of the run of positive   *)
(* frames that ends at the last frame it was updated for (an update adds   *)
(* exactly 1 or resets to 0; no cap, no decay), and                        *)
(* should_show_collision_alert() holds exactly when                        *)
(* collision_alert_frames >= collision_alert_threshold.                    *)
C2_CountersAreRunLengths ==
    LET updated == IF pc = "collision" THEN history.frames - 1
                   ELSE history.frames
    IN /\ warning_system.left_warning_frames >= 0
       /\ warning_system.right_warning_frames >= 0
       /\ warning_system.collision_alert_frames >= 0
       /\ warning_system.left_warning_frames = history.frames - history.left
       /\ warning_system.right_warning_frames = history.frames - history.right
       /\ warning_system.collision_alert_frames = updated - history.collision
       /\ should_show_collision_alert(warning_system)
            <=> (warning_system.collision_alert_frames
                    >= warning_system.collision_alert_threshold)

(* a run longer than the threshold beside a counter reset by this frame *)
C2_Witness ==
    /\ pc = "loop"
    /\ warning_system.left_warning_frames = 4
    /\ warning_system.right_warning_frames = 0
    /\ history.right = history.frames
    /\ should_show_collision_alert(warning_system)

(* the frame of the end-to-end scenario: one car, confidence 0.9, inside   *)
(* the ROI, every depth reading 700                                        *)
ScenarioFrame ==
    /\ ~frame.none
    /\ frame.shape = FrameShape
    /\ results = <<Boxes(<<CarInRoiLeft>>)>>
    /\ depth_map = Map700

(* C3: in a session started on a new detector, after the scenario frame    *)
(* as first frame the collision alert flag is False, and after the same    *)
(* frame as second frame it is True.                                       *)
C3_AlertOnSecondFrame ==
    (pc \in {"loop", "done"} /\ ScenarioFrame) =>
        /\ frame_count = 1 => ~should_show_collision_alert(warning_system)
        /\ (frame_count = 2 /\ repeated)
               => should_show_collision_alert(warning_system)

C3_Witness ==
    /\ pc = "loop"
    /\ ScenarioFrame
    /\ frame_count = 2
    /\ repeated
    /\ should_show_collision_alert(warning_system)

(* C4: a frame processed without a depth map has two empty close-lists and *)
(* no collision signal whatever it detects (the collision check itself     *)
(* answers False for it), leaves all three counters at 0 and draws         *)
(* neither warning nor alert.                                              *)
C4_NoDepthNoSignal ==
    (Classified /\ depth_map.none) =>
        /\ close_vehicles = <<<<>>, <<>>>>
        /\ ~check_collision_alert(results, depth_map, frame.shape[2],
                                  frame.shape[1])
        /\ warning_system.left_warning_frames = 0
        /\ warning_system.right_warning_frames = 0
        /\ Decided => /\ ~collision_detected
                      /\ warning_system.collision_alert_frames = 0
        /\ BetweenFrames =>
               drawn = [left |-> FALSE, right |-> FALSE, collision |-> FALSE]

(* a frame with a car and a truck in the ROI went through without depth *)
C4_Witness ==
    /\ pc = "loop"
    /\ frame_count = 1
    /\ depth_map.none
    /\ results = <<Boxes(<<CarInRoiLeft, TruckOnMidline>>)>>
    /\ warning_system.collision_alert_frames = 0

(* C5: a detection with confidence <= CONFIDENCE_THRESHOLD or a class id   *)
(* outside {0,1,2,3,5,6,7} is inert: the classification step and the       *)
(* collision step of a frame produce the lists, the signal and the         *)
(* counters they produce for the frame without that detection.             *)
C5_InertDetection ==
    [][
       /\ (pc = "loop" /\ pc' = "collision") =>
             \A q \in Positions(results') :
                 (BoxAt(results', q).conf <= 5
                     \/ BoxAt(results', q).cls \notin {0, 1, 2, 3, 5, 6, 7})
                 => LET lists == get_close_vehicles_by_side(
                                     RemoveBox(results', q), depth_map',
                                     frame'.shape[2])
                    IN /\ close_vehicles' = lists
                       /\ warning_system' = update_warning_persistence(
                              warning_system, lists[1], lists[2])
       /\ (pc = "collision" /\ pc' = "draw") =>
             \A q \in Positions(results) :
                 (BoxAt(results, q).conf <= 5
                     \/ BoxAt(results, q).cls \notin {0, 1, 2, 3, 5, 6, 7})
                 => LET signal ==
                            IF depth_map.none THEN FALSE
                            ELSE check_collision_alert(
                                     RemoveBox(results, q), depth_map,
                                     frame.shape[2], frame.shape[1])
                    IN /\ collision_detected' = signal
                       /\ warning_system' = update_collision_persistence(
                              warning_system, signal)
      ]_vars

(* a car at the confidence threshold, inside the ROI, every depth reading  *)
(* 1300: nothing listed, no collision                                      *)
C5_Witness ==
    /\ pc = "draw"
    /\ results = <<Boxes(<<CarLowConf>>)>>
    /\ depth_map = Map1300
    /\ close_vehicles = <<<<>>, <<>>>>
    /\ ~collision_detected

(* C6: get_roi_coordinates(w, h) returns exactly                           *)
(* (w div 4, h - (h div 3), 3 * (w div 4), h); for 800 x 600 that is       *)
(* (200, 400, 600, 600).                                                   *)
C6_RoiCoordinates ==
    ret.fn = "get_roi_coordinates" =>
        /\ ret.value = <<call.frame_width \div 4,
                         call.frame_height - (call.frame_height \div 3),
                         3 * (call.frame_width \div 4),
                         call.frame_height>>
        /\ (call.frame_width = 800 /\ call.frame_height = 600)
               => ret.value = <<200, 400, 600, 600>>

C6_Witness ==
    /\ ret.fn = "get_roi_coordinates"
    /\ call.frame_width = 800 /\ call.frame_height = 600
    /\ ret.value = <<200, 400, 600, 600>>

(* C7: for a well-formed bbox, is_in_collision_roi is true iff the bbox    *)
(* and the ROI rectangle, as closed axis-aligned rectangles, share a       *)
(* point; at 800 x 600 it is true for (200,400,300,500) and false for      *)
(* (50,100,150,200).                                                       *)
C7_RoiIntersection ==
    ret.fn = "is_in_collision_roi" =>
        /\ ret.value <=>
              Overlap(call.bbox,
                      <<call.frame_width \div 4,
                        call.frame_height - (call.frame_height \div 3),
                        3 * (call.frame_width \div 4),
                        call.frame_height>>)
        /\ call = RoiCall(800, 600, 200, 400, 300, 500) => ret.value
        /\ call = RoiCall(800, 600, 50, 100, 150, 200) => ~ret.value

C7_Witness ==
    /\ ret.fn = "is_in_collision_roi"
    /\ call = RoiCall(800, 600, 200, 400, 300, 500)
    /\ ret.value

(* the depth reading of a box: the median sampled at int((x1+x2)/2),       *)
(* int((y1+y2)/2) with the given radius                                    *)
Reading(box, dm, radius) ==
    get_depth_at_location(dm, IntHalf(box.xyxy[1] + box.xyxy[3]),
                          IntHalf(box.xyxy[2] + box.xyxy[4]), radius).median

(* C8: with a depth map, the collision signal of a frame is true iff some  *)
(* detection has confidence > 0.5, a road-class id, a bbox that overlaps   *)
(* the ROI rectangle, and a reading (radius DEPTH_COLLISION_SAMPLE_SIZE)   *)
(* strictly greater than COLLISION_THRESHOLD.                              *)
C8_CollisionIff ==
    (Decided /\ ~depth_map.none) =>
        (collision_detected <=>
            \E q \in Positions(results) :
                LET box == BoxAt(results, q)
                    m   == Reading(box, depth_map, DEPTH_COLLISION_SAMPLE_SIZE)
                IN /\ box.conf > 5
                   /\ box.cls \in {0, 1, 2, 3, 5, 6, 7}
                   /\ Overlap(box.xyxy,
                              get_roi_coordinates(frame.shape[2],
                                                  frame.shape[1]))
                   /\ ~m.nan
                   /\ m.twice > 2 * 600)

(* the colliding car is in the first result, a harmless box in the second *)
C8_Witness ==
    /\ pc = "draw"
    /\ results = <<Boxes(<<CarInRoiLeft>>), Boxes(<<PersonTopLeft>>)>>
    /\ depth_map = Map700
    /\ collision_detected

(* all boxes of a result list, in the order of the results *)
RECURSIVE AllBoxes(_, _)
AllBoxes(res, r) ==
    IF r > Len(res) THEN <<>>
    ELSE (IF res[r].boxes.none THEN <<>> ELSE res[r].boxes.items)
         \o AllBoxes(res, r + 1)

(* the qualifying detections with a reading (radius 5) above               *)
(* CLOSE_DEPTH_THRESHOLD                                                    *)
CloseDetections(res, dm) ==
    LET Test(box) ==
            /\ box.conf > 5
            /\ box.cls \in {0, 1, 2, 3, 5, 6, 7}
            /\ LET m == Reading(box, dm, 5) IN ~m.nan /\ m.twice > 2 * 1200
    IN SelectSeq(AllBoxes(res, 1), Test)

(* those of them on the given side of the midline *)
OnSide(boxes, frame_width, left) ==
    LET Test(box) == left <=> (box.xyxy[1] + box.xyxy[3] < frame_width)
    IN SelectSeq(boxes, Test)

(* list holds exactly one class name per box of the sequence boxes *)
OneNamePerBox(list, boxes) ==
    /\ Len(list) = Len(boxes)
    /\ \A b \in DOMAIN boxes :
         Cardinality({k \in DOMAIN list :
                         list[k] = class_names[boxes[b].cls]})
           = Cardinality({k \in DOMAIN boxes : boxes[k].cls = boxes[b].cls})

(* C9: with a depth map, the left list holds one class name per            *)
(* qualifying close detection whose centre x is < frame_width / 2 and the  *)
(* right list one per other qualifying close detection (a centre on the    *)
(* midline included); nothing else is listed.                              *)
C9_Buckets ==
    (Classified /\ ~depth_map.none) =>
        LET close == CloseDetections(results, depth_map) IN
        /\ OneNamePerBox(close_vehicles[1],
                         OnSide(close, frame.shape[2], TRUE))
        /\ OneNamePerBox(close_vehicles[2],
                         OnSide(close, frame.shape[2], FALSE))

(* the truck centred on the midline is listed right, the car left *)
C9_Witness ==
    /\ pc = "collision"
    /\ results = <<Boxes(<<TruckOnMidline>>), Boxes(<<CarInRoiLeft>>)>>
    /\ depth_map = Map1300
    /\ close_vehicles = <<<<"car">>, <<"truck">>>>

(* C10: for any centre and radius the sampler raises nothing, and every    *)
(* pixel it reads has its row in [0, rows-1] and its column in             *)
(* [0, cols-1].                                                            *)
C10_SamplerInBounds ==
    ret.fn = "get_depth_at_location" =>
        /\ ~ret.value.raised
        /\ \A k \in DOMAIN ret.value.reads :
             /\ ret.value.reads[k][1] \in 0..(call.depth_map.shape[1] - 1)
             /\ ret.value.reads[k][2] \in 0..(call.depth_map.shape[2] - 1)

(* a centre left of and below the map, sampled with radius 5: 25 reads *)
C10_Witness ==
    /\ ret.fn = "get_depth_at_location"
    /\ call.center_x < 0
    /\ call.center_y >= call.depth_map.shape[1]
    /\ call.sample_size = 5
    /\ Len(ret.value.reads) = 25

-----------------------------------------------------------------------------
(* the smallest and the largest value of a depth map *)
MapValues(dm) == {dm.px[p] : p \in DOMAIN dm.px}

(* C11: the value the sampler returns for a map, a centre and a radius is  *)
(* a number between the map's global minimum and its global maximum.       *)
C11_MedianWithinRange ==
    ret.fn = "get_depth_at_location" =>
        /\ ~ret.value.median.nan
        /\ \E lo \in MapValues(call.depth_map), hi \in MapValues(call.depth_map) :
              /\ 2 * lo <= ret.value.median.twice
              /\ ret.value.median.twice <= 2 * hi

(* C12: directly after construction the three counters are 0, and in every *)
(* state warning_threshold is 3 and collision_alert_threshold is 2 (both   *)
(* > 0): no step of a frame changes them.                                  *)
C12_InitialCountersAndThresholds ==
    /\ pc = "init" =>
          /\ warning_system.left_warning_frames = 0
          /\ warning_system.right_warning_frames = 0
          /\ warning_system.collision_alert_frames = 0
    /\ warning_system.warning_threshold = 3
    /\ warning_system.collision_alert_threshold = 2
    /\ warning_system.warning_threshold > 0
    /\ warning_system.collision_alert_threshold > 0

(* frames have moved all three counters, the thresholds stand *)
C12_Witness ==
    /\ pc = "loop"
    /\ warning_system.left_warning_frames >= 3
    /\ warning_system.right_warning_frames >= 1
    /\ warning_system.collision_alert_frames >= 2
    /\ warning_system.warning_threshold = 3
    /\ warning_system.collision_alert_threshold = 2

(* C13: at the start of every session (the loop is entered, no frame of    *)
(* the session read yet) all three counters are 0, also in a session run   *)
(* on a detector that has processed an earlier one.                        *)
C13_CountersZeroAtSessionStart ==
    (pc = "loop" /\ frame_count = 0) =>
        /\ warning_system.left_warning_frames = 0
        /\ warning_system.right_warning_frames = 0
        /\ warning_system.collision_alert_frames = 0

(* the counters after the complete processing of frame f with use_depth    *)
(* ud, from the counters ws                                                *)
AfterFrame(ws, f, ud) ==
    LET dm     == IF ud THEN f.depth ELSE None
        lists  == get_close_vehicles_by_side(f.results, dm, f.shape[2])
        signal == IF dm.none THEN FALSE
                  ELSE check_collision_alert(f.results, dm, f.shape[2],
                                             f.shape[1])
    IN update_collision_persistence(
           update_warning_persistence(ws, lists[1], lists[2]), signal)

(* C14: when the processing of a frame is stopped at any point, the three  *)
(* counters are all those from before the frame or all those from after    *)
(* the complete frame.                                                      *)
C14_FrameAtomicForCounters ==
    pc = "stopped" =>
        \/ warning_system = call.warning_system
        \/ warning_system = AfterFrame(call.warning_system, feed.input,
                                       use_depth)

(* C15: a frame without detections (no result, or results whose boxes are  *)
(* None or empty) has two empty close-lists and no collision signal, with  *)
(* or without a depth map; after it all three counters are 0 and all three *)
(* flags false, whatever the counters were before.                          *)
C15_NoDetections ==
    (Classified /\ Positions(results) = {}) =>
        /\ close_vehicles = <<<<>>, <<>>>>
        /\ warning_system.left_warning_frames = 0
        /\ warning_system.right_warning_frames = 0
        /\ ~draw_warnings(warning_system).left
        /\ ~draw_warnings(warning_system).right
        /\ Decided => /\ ~collision_detected
                      /\ warning_system.collision_alert_frames = 0
                      /\ ~should_show_collision_alert(warning_system)
        /\ BetweenFrames =>
               drawn = [left |-> FALSE, right |-> FALSE, collision |-> FALSE]

(* a result without boxes and one with an empty box list, over a depth     *)
(* map, on a detector whose counters were not 0                             *)
C15_Witness ==
    /\ pc = "loop"
    /\ frame_count = 1
    /\ results = <<NoBoxes, Boxes(<<>>)>>
    /\ depth_map = Map1300
    /\ history.frames = 4
    /\ warning_system.left_warning_frames = 0
    /\ warning_system.collision_alert_frames = 0

(* a bbox with x1 > x2 or y1 > y2 *)
Malformed(box) == box.xyxy[1] > box.xyxy[3] \/ box.xyxy[2] > box.xyxy[4]

(* the box with its bbox normalized: min and max on each axis *)
Normalized(box) ==
    [box EXCEPT !.xyxy = <<Min(@[1], @[3]), Min(@[2], @[4]),
                           Max(@[1], @[3]), Max(@[2], @[4])>>]

(* the result list with box b at position q *)
ReplaceBox(res, q, b) == [res EXCEPT ![q[1]].boxes.items[q[2]] = b]

(* C16: a detection with a malformed bbox raises nothing in the sampler    *)
(* and is either skipped (the frame's lists, signal and counters are those *)
(* of the frame without it) or handled exactly as its normalized bbox (the *)
(* frame's lists, signal and counters are those of the frame with the      *)
(* normalized bbox in its place).                                           *)
C16_MalformedBbox ==
    pc = "draw" =>
        \A q \in Positions(results) :
            Malformed(BoxAt(results, q)) =>
              /\ ~depth_map.none =>
                    ~get_depth_at_location(depth_map,
                         IntHalf(BoxAt(results, q).xyxy[1]
                                 + BoxAt(results, q).xyxy[3]),
                         IntHalf(BoxAt(results, q).xyxy[2]
                                 + BoxAt(results, q).xyxy[4]),
                         5).raised
              /\ \E res \in {RemoveBox(results, q),
                             ReplaceBox(results, q,
                                 Normalized(BoxAt(results, q)))} :
                    LET lists  == get_close_vehicles_by_side(
                                      res, depth_map, frame.shape[2])
                        signal == IF depth_map.none THEN FALSE
                                  ELSE check_collision_alert(
                                           res, depth_map,
                                           frame.shape[2], frame.shape[1])
                        before == [WarningSystem_init EXCEPT
                                      !.left_warning_frames = 1,
                                      !.right_warning_frames = 2,
                                      !.collision_alert_frames = 1]
                    IN /\ close_vehicles = lists
                       /\ collision_detected = signal
                       /\ warning_system =
                            update_collision_persistence(
                                update_warning_persistence(
                                    before, lists[1], lists[2]),
                                signal)

(* C17: the steps of a frame run in the order classification and          *)
(* left/right update, collision check and collision update, reading of    *)
(* the flags, each once per frame: the first step sets the left and right *)
(* counters from the frame's lists and leaves the collision counter, the  *)
(* second sets the collision counter from the frame's signal (negative    *)
(* without a depth map) and leaves the other two, the third reads the     *)
(* flags from the counters so updated and ends the frame; no other step   *)
(* touches a counter.                                                      *)
C17_StepOrder ==
    [][
       /\ pc' # pc =>
             <<pc, pc'>> \in {<<"init", "loop">>, <<"loop", "collision">>,
                              <<"collision", "draw">>, <<"draw", "loop">>,
                              <<"loop", "done">>}
       /\ (pc = "loop" /\ pc' = "collision") =>
             /\ warning_system'.left_warning_frames =
                    IF close_vehicles'[1] # <<>>
                    THEN warning_system.left_warning_frames + 1 ELSE 0
             /\ warning_system'.right_warning_frames =
                    IF close_vehicles'[2] # <<>>
                    THEN warning_system.right_warning_frames + 1 ELSE 0
             /\ warning_system'.collision_alert_frames =
                    warning_system.collision_alert_frames
             /\ frame_count' = frame_count
       /\ (pc = "collision" /\ pc' = "draw") =>
             /\ depth_map.none => ~collision_detected'
             /\ warning_system'.collision_alert_frames =
                    IF collision_detected'
                    THEN warning_system.collision_alert_frames + 1 ELSE 0
             /\ warning_system'.left_warning_frames =
                    warning_system.left_warning_frames
             /\ warning_system'.right_warning_frames =
                    warning_system.right_warning_frames
             /\ close_vehicles' = close_vehicles
             /\ frame_count' = frame_count
       /\ (pc = "draw" /\ pc' = "loop") =>
             /\ warning_system' = warning_system
             /\ drawn'.left <=> (warning_system.left_warning_frames
                                    >= warning_system.warning_threshold)
             /\ drawn'.right <=> (warning_system.right_warning_frames
                                    >= warning_system.warning_threshold)
             /\ frame_count' = frame_count + 1
       /\ (pc = "init" \/ pc' = "done" \/ pc' = pc) =>
             warning_system' = warning_system
      ]_vars

(* a frame without a depth map went through all its steps: the collision  *)
(* counter, 1 or 2 before, was reset by this frame's negative signal      *)
C17_Witness ==
    /\ pc = "loop"
    /\ frame_count = 1
    /\ depth_map.none
    /\ results = <<Boxes(<<CarInRoiLeft>>)>>
    /\ history.collision = history.frames
    /\ warning_system.collision_alert_frames = 0
    /\ drawn = [left |-> FALSE, right |-> FALSE, collision |-> FALSE]

(* the class names of a sequence of boxes, in its order *)
NamesOf(boxes) == [k \in DOMAIN boxes |-> class_names[boxes[k].cls]]

(* the qualifying detections that overlap the ROI of a w x h frame with a  *)
(* reading (radius 5) above COLLISION_THRESHOLD                            *)
CollidingDetections(res, dm, w, h) ==
    LET Test(box) ==
            /\ box.conf > 5
            /\ box.cls \in {0, 1, 2, 3, 5, 6, 7}
            /\ Overlap(box.xyxy, <<w \div 4, h - (h \div 3), 3 * (w \div 4), h>>)
            /\ LET m == Reading(box, dm, 5) IN ~m.nan /\ m.twice > 2 * 600
    IN SelectSeq(AllBoxes(res, 1), Test)

C19_CountersIndependent ==
    [][
       /\ (pc = "loop" /\ pc' = "collision") =>
             /\ warning_system'.collision_alert_frames =
                    warning_system.collision_alert_frames
             /\ warning_system'.left_warning_frames \in
                    {0, warning_system.left_warning_frames + 1}
             /\ warning_system'.left_warning_frames = 0
                    <=> close_vehicles'[1] = <<>>
             /\ warning_system'.right_warning_frames \in
                    {0, warning_system.right_warning_frames + 1}
             /\ warning_system'.right_warning_frames = 0
                    <=> close_vehicles'[2] = <<>>
       /\ (pc = "collision" /\ pc' = "draw") =>
             /\ warning_system'.left_warning_frames =
                    warning_system.left_warning_frames
             /\ warning_system'.right_warning_frames =
                    warning_system.right_warning_frames
      ]_vars

(* the left counter runs on while the right one was reset and the          *)
(* collision counter stands at another value                               *)
C19_Witness ==
    /\ pc = "loop"
    /\ warning_system.left_warning_frames = 3
    /\ warning_system.right_warning_frames = 0
    /\ warning_system.collision_alert_frames = 1
    /\ history.right = history.frames

(* the flat list ds in the order given by the permutation p of its         *)
(* positions                                                                *)
Permuted(ds, p) == [k \in DOMAIN ds |-> ds[p[k]]]

(* every reordering of the detections of res, in every grouping into       *)
(* results                                                                  *)
Reorderings(res) ==
    LET ds == AllBoxes(res, 1)
    IN {CutResults(Permuted(ds, p), cut) :
            p \in Permutations(DOMAIN ds), cut \in 0..Len(ds)}

(* the two lists hold the same names the same number of times *)
SameMultiset(a, b) ==
    /\ Len(a) = Len(b)
    /\ \A n \in {a[k] : k \in DOMAIN a} :
          Cardinality({k \in DOMAIN a : a[k] = n})
            = Cardinality({k \in DOMAIN b : b[k] = n})

(* C20: the frame's signals do not depend on the order of the detections.  *)
(* For every permutation of the frame's detections, across and within      *)
(* result objects, check_collision_alert returns the boolean it returned   *)
(* for the frame, the left and the right close-list hold the same multiset *)
(* of class names as the frame's lists, and the counters after the frame   *)
(* are those the frame produced.                                            *)
C20_OrderIndependent ==
    (pc = "draw" /\ frame_count = 0) =>
        \A res \in Reorderings(results) :
            LET lists  == get_close_vehicles_by_side(res, depth_map,
                                                     frame.shape[2])
                signal == IF depth_map.none THEN FALSE
                          ELSE check_collision_alert(res, depth_map,
                                   frame.shape[2], frame.shape[1])
                before == [WarningSystem_init EXCEPT
                              !.left_warning_frames = 1,
                              !.right_warning_frames = 2,
                              !.collision_alert_frames = 1]
            IN /\ signal = collision_detected
               /\ SameMultiset(lists[1], close_vehicles[1])
               /\ SameMultiset(lists[2], close_vehicles[2])
               /\ warning_system =
                    update_collision_persistence(
                        update_warning_persistence(before, lists[1], lists[2]),
                        signal)

(* a harmless person first and the colliding car after it in the same      *)
(* result: swapped, the loop breaks at the car before it sees the person   *)
C20_Witness ==
    /\ pc = "draw"
    /\ results = <<Boxes(<<PersonTopLeft, CarInRoiLeft>>)>>
    /\ ~depth_map.none
    /\ collision_detected
    /\ close_vehicles[1] = <<"person", "car">>

-----------------------------------------------------------------------------
(* the offsets <<dy, dx>> from the centre that a sampling covers, as far   *)
(* as the pixels it read tell: the set of index pairs read                  *)
PixelsRead(sampling) == {sampling.reads[k] : k \in DOMAIN sampling.reads}

(* C21: for any configured value of DEPTH_COLLISION_SAMPLE_SIZE the         *)
(* proximity classifier and the ROI collision check read the same pixels   *)
(* around a detection's centre and get the same median depth for it.       *)
C21_SameRadiusAtBothCallSites ==
    ret.fn = "samplings" =>
        /\ PixelsRead(ret.close) = PixelsRead(ret.collision)
        /\ ret.close.median = ret.collision.median

(* some detection of the frame is in the close-list of the given side and  *)
(* its bbox intersects the ROI                                              *)
ListedInRoi(res, dm, w, h, left) ==
    LET listed == OnSide(CloseDetections(res, dm), w, left)
    IN \E k \in DOMAIN listed :
          Overlap(listed[k].xyxy, get_roi_coordinates(w, h))

(* C22: in a frame with a depth map in which some detection is in the left *)
(* or right close-list and its bbox intersects the ROI, the collision      *)
(* signal is true; so such a frame raises the collision counter by one, as *)
(* it has raised that side's warning counter by one, and over a run of     *)
(* such frames the collision counter never falls behind what the warning   *)
(* counter gained in the run.                                               *)
C22_CloseInRoiCollides ==
    [][
       (pc = "collision" /\ pc' = "draw" /\ ~depth_map.none) =>
          /\ ListedInRoi(results, depth_map, frame.shape[2], frame.shape[1],
                         TRUE) =>
                /\ collision_detected'
                /\ warning_system.left_warning_frames >= 1
                /\ warning_system'.collision_alert_frames =
                       warning_system.collision_alert_frames + 1
          /\ ListedInRoi(results, depth_map, frame.shape[2], frame.shape[1],
                         FALSE) =>
                /\ collision_detected'
                /\ warning_system.right_warning_frames >= 1
                /\ warning_system'.collision_alert_frames =
                       warning_system.collision_alert_frames + 1
      ]_vars

(* the third frame in a row with the close car in the ROI: both counters   *)
(* stand at 3                                                               *)
C22_Witness ==
    /\ pc = "draw"
    /\ results = <<Boxes(<<CarInRoiLeft>>)>>
    /\ depth_map = MapSplit
    /\ close_vehicles[1] = <<"car">>
    /\ collision_detected
    /\ warning_system.left_warning_frames = 3
    /\ warning_system.collision_alert_frames = 3

(* C23: for every frame size w >= 0, h >= 0 the ROI rectangle is           *)
(* well-formed and inside the frame: 0 <= roi_left <= roi_right <= w and   *)
(* 0 <= roi_top <= roi_bottom = h.  It has zero width at x = 0 when w < 4, *)
(* roi_top = h only when h < 3, and roi_left = w - roi_right only when w   *)
(* is a multiple of 4.                                                      *)
C23_RoiWellFormed ==
    ret.fn = "get_roi_coordinates" =>
        LET w == call.frame_width
            h == call.frame_height
            roi_left   == ret.value[1]
            roi_top    == ret.value[2]
            roi_right  == ret.value[3]
            roi_bottom == ret.value[4]
        IN /\ 0 <= roi_left /\ roi_left <= roi_right /\ roi_right <= w
           /\ 0 <= roi_top /\ roi_top <= roi_bottom /\ roi_bottom = h
           /\ w < 4 => (roi_left = 0 /\ roi_right = 0)
           /\ roi_top = h => h < 3
           /\ roi_left = w - roi_right => w % 4 = 0

(* a 3 x 2 frame: the ROI is the point (0, 2) on the bottom edge *)
C23_Witness ==
    /\ ret.fn = "get_roi_coordinates"
    /\ call.frame_width = 3 /\ call.frame_height = 2
    /\ ret.value = <<0, 2, 0, 2>>

(* the bbox is strictly separated from the rectangle roi on some axis *)
StrictlySeparated(bbox, roi) ==
    \/ bbox[3] < roi[1] \/ bbox[1] > roi[3]
    \/ bbox[4] < roi[2] \/ bbox[2] > roi[4]

(* the bbox reaches the rectangle roi with one of its edges only: x2 on    *)
(* roi_left, x1 on roi_right, y2 on roi_top or y1 on roi_bottom            *)
TouchesBoundary(bbox, roi) ==
    /\ ~StrictlySeparated(bbox, roi)
    /\ \/ bbox[3] = roi[1] \/ bbox[1] = roi[3]
       \/ bbox[4] = roi[2] \/ bbox[2] = roi[4]

(* C24: the ROI test is inclusive at the edges.  A bbox that only touches  *)
(* the ROI boundary is reported as intersecting, also when the overlap has *)
(* no area or the bbox lies on the frame's bottom edge; a bbox is reported *)
(* as not intersecting only when it is strictly separated from the ROI on  *)
(* some axis, and then always.                                              *)
C24_InclusiveEdges ==
    ret.fn = "is_in_collision_roi" =>
        LET roi == get_roi_coordinates(call.frame_width, call.frame_height)
        IN /\ TouchesBoundary(call.bbox, roi) => ret.value
           /\ ~ret.value <=> StrictlySeparated(call.bbox, roi)

(* an 8 x 6 frame, ROI (2, 4, 6, 6): the point bbox on the ROI's bottom    *)
(* right corner, on the frame's bottom edge                                 *)
C24_Witness ==
    /\ ret.fn = "is_in_collision_roi"
    /\ call = RoiCall(8, 6, 6, 6, 6, 6)
    /\ TouchesBoundary(call.bbox, <<2, 4, 6, 6>>)
    /\ ret.value

(* the value of the map's bottom-right pixel *)
BottomRight(dm) == dm.px[<<dm.shape[1] - 1, dm.shape[2] - 1>>]

(* the bbox centre minus the radius is >= map width - 1 on x and           *)
(* >= map height - 1 on y                                                   *)
BeyondMap(box, dm, radius) ==
    /\ IntHalf(box.xyxy[1] + box.xyxy[3]) - radius >= dm.shape[2] - 1
    /\ IntHalf(box.xyxy[2] + box.xyxy[4]) - radius >= dm.shape[1] - 1

(* the frame is classified with a depth map smaller than the frame *)
SmallMapFrame ==
    /\ pc = "draw"
    /\ ~depth_map.none
    /\ depth_map.shape[1] < frame.shape[1]
    /\ depth_map.shape[2] < frame.shape[2]

(* every detection of the frame is a road object with confidence > 0.5     *)
(* whose samplings all lie beyond the map, and there is one                 *)
AllBeyondMap ==
    /\ Positions(results) # {}
    /\ \A q \in Positions(results) :
          /\ BoxAt(results, q).conf > 5
          /\ BoxAt(results, q).cls \in {0, 1, 2, 3, 5, 6, 7}
          /\ BeyondMap(BoxAt(results, q), depth_map, 5)

(* every detection beyond the map reads the bottom-right pixel, and in a   *)
(* frame of such detections all of them are listed as close or none is     *)
BeyondMapReadsCorner ==
    /\ \A q \in Positions(results) :
          BeyondMap(BoxAt(results, q), depth_map, 5) =>
             LET m == Reading(BoxAt(results, q), depth_map, 5)
             IN ~m.nan /\ m.twice = 2 * BottomRight(depth_map)
    /\ AllBeyondMap =>
          Len(close_vehicles[1]) + Len(close_vehicles[2]) =
              IF BottomRight(depth_map) > 1200
              THEN Len(AllBoxes(results, 1)) ELSE 0

(* C25 as stated: depth is read at frame coordinates without rescaling; a  *)
(* detection whose samplings lie beyond a smaller map reads the map's      *)
(* bottom-right pixel, so all such detections get the same close verdict   *)
(* and the same collision verdict whatever their position in the frame.    *)
C25_SameVerdictAnywhere ==
    SmallMapFrame =>
        /\ BeyondMapReadsCorner
        /\ AllBeyondMap =>
              (collision_detected <=> BottomRight(depth_map) > 600)

(* C25, amended: ... all such detections get the same close verdict, and   *)
(* the same collision verdict as far as their bbox intersects the ROI; one *)
(* whose bbox does not intersect the ROI causes no collision whatever the  *)
(* pixel's value.                                                           *)
C25_BeyondMapReadsCorner ==
    SmallMapFrame =>
        /\ BeyondMapReadsCorner
        /\ AllBeyondMap =>
              (collision_detected <=>
                  /\ BottomRight(depth_map) > 600
                  /\ \E q \in Positions(results) :
                        Overlap(BoxAt(results, q).xyxy,
                                get_roi_coordinates(frame.shape[2],
                                                    frame.shape[1])))

(* a car in the ROI and a bus right of it, both beyond the 3 x 4 map: both *)
(* read its corner 1201 and are listed on the right                         *)
C25_Witness ==
    /\ SmallMapFrame
    /\ AllBeyondMap
    /\ results = <<Boxes(<<CarBeyondInRoi, BusBeyondRight>>)>>
    /\ depth_map = MapSmall
    /\ close_vehicles = <<<<>>, <<"car", "bus">>>>
    /\ collision_detected

C27_RoiComputationsAgree ==
    ret.fn = "roi_thrice" =>
        /\ ret.overlay = ret.coordinates
        /\ ret.inside <=> Overlap(call.bbox, ret.coordinates)

(* a 6 x 5 frame, where the ROI (1, 4, 3, 5) is not centred: the bbox      *)
(* (3, 5, 4, 6) meets it in its bottom right corner                         *)
C27_Witness ==
    /\ ret.fn = "roi_thrice"
    /\ call = RoiCall(6, 5, 3, 5, 4, 6)
    /\ ret.coordinates = <<1, 4, 3, 5>>
    /\ ret.overlay = <<1, 4, 3, 5>>
    /\ ret.inside

====
